---- MODULE Spec2Model ----
(***************************************************************************)
(* ISA1000 haptic actuator driver (drivers/input/misc/isa1000-ff-memless.c) *)
(* as a state machine.  Four execution contexts touch the single device    *)
(* structure vib_dev: the force-feedback caller (isa1000_vib_play_effect), *)
(* the workqueue worker (isa1000_work_handler), the input core's close     *)
(* hook (isa1000_vib_close) and the PM suspend hook (isa1000_vib_suspend). *)
(* Every source line that reads or writes shared state is one step, so     *)
(* the interleavings of the four contexts are the behaviours of the model. *)
(***************************************************************************)
EXTENDS Integers, Sequences, FiniteSets, TLC

VARIABLES
    speed,              \* vib->speed
    active,             \* vib->active
    pwm_duty_percent,   \* vib->pwm_duty_percent
    gpio_isa1000_en,    \* level of the enable line, 0 or 1
    pwm,                \* PWM backend: [enabled, duty_ns, period_ns]
    pending,            \* queued (not yet started) units of vib->work
    canceling,          \* cancel_work_sync holds the work's PENDING bit
    pc,                 \* source position of each context
    effect,             \* <<strong_magnitude, weak_magnitude>> of the last call
    reg,                \* worker: value of its first read of vib->speed
    torn,               \* worker: a later read returned another value
    rc,                 \* return value of each context's isa1000_vib_set call
    log,                \* hardware calls made by each context's current call
    batch,              \* play calls completed since the worker last read vib->speed
    quiesced,           \* close has returned and no work was scheduled since
    sActive,            \* vib->active when the current suspend call began
    running,            \* invocations of isa1000_work_handler now executing
    duty0,              \* observed run: vib->pwm_duty_percent when it began
    held                \* observed run: values vib->speed has held during it

vars == << speed, active, pwm_duty_percent, gpio_isa1000_en, pwm, pending,
           canceling, pc, effect, reg, torn, rc, log, batch, quiesced,
           sActive, running, duty0, held >>

(***************************************************************************)
(* Program constants and model bounds.                                     *)
(***************************************************************************)
NSEC_PER_SEC == 1000000000
PWM_FREQUENCY == 25000
PWM_DUTY_DEFAULT == 80
DUTY_MAX == 100
DUTY_MIN == 70
DUTY_IDLE == 50

\* play calls allowed between two worker starts
MaxBurst == 2

Threads == {"play", "work", "close", "suspend"}

\* <<strong_magnitude, weak_magnitude>> pairs a caller may submit (u16 each):
\* the corners of the two shifts, the three duty classes, both fallbacks.
WideEffects ==
    { <<0, 0>>, <<255, 511>>, <<256, 0>>, <<0, 512>>, <<17920, 0>>,
      <<0, 35840>>, <<25600, 0>>, <<32768, 0>>, <<65535, 65535>> }

\* the pairs used where all four contexts interleave: off, in range through
\* the weak-motor fallback, above range
Effects == { <<0, 0>>, <<0, 35840>>, <<32768, 0>> }

\* negative errno values the PWM backend may return (-EINVAL, -ENODEV)
Errs == { -22, -19 }

\* x >> n on a non-negative value
Shr(x, n) == x \div (2 ^ n)

NoPwm == [enabled |-> FALSE, duty_ns |-> 0, period_ns |-> 0]

Init ==
    /\ speed = 0
    /\ active = FALSE
    /\ pwm_duty_percent = PWM_DUTY_DEFAULT
    /\ gpio_isa1000_en = 0
    /\ pwm = NoPwm
    /\ pending = 0
    /\ canceling = FALSE
    /\ pc = [t \in Threads |-> "idle"]
    /\ effect = <<0, 0>>
    /\ reg = 0
    /\ torn = FALSE
    /\ rc = [t \in Threads |-> 0]
    /\ log = [t \in Threads |-> << >>]
    /\ batch = 0
    /\ quiesced = "no"
    /\ sActive = FALSE
    /\ running = 0
    /\ duty0 = 0
    /\ held = {}

Goto(t, l) == pc' = [pc EXCEPT ![t] = l]

HwOp(op, val) == [op |-> op, val |-> val]

(***************************************************************************)
(* isa1000_vib_set(vib, on): the hardware sequence, one step per backend   *)
(* call.  t is the calling context.  The call ends at "setret" with rc[t]. *)
(***************************************************************************)
Logged(t, op, val) == log' = [log EXCEPT ![t] = Append(@, HwOp(op, val))]

\* unsigned int arithmetic; the product is at most 40000 * 100, far below
\* 2^32, so nothing wraps
pwm_period_ns == NSEC_PER_SEC \div PWM_FREQUENCY

pwm_high_ns(duty) == (pwm_period_ns * duty) \div 100

\* pwm_config() whose failure is logged but not returned
isa1000_vib_set_config_ignored(t) ==
    /\ pc[t] = "set78"
    /\ \E r \in {0} \cup Errs :
          /\ Logged(t, "pwm_config", r)
          /\ pwm' = IF r < 0
                       THEN pwm
                       ELSE [pwm EXCEPT !.duty_ns = pwm_high_ns(pwm_duty_percent),
                                        !.period_ns = pwm_period_ns]
          /\ Goto(t, "set84")
    /\ UNCHANGED << speed, active, pwm_duty_percent, gpio_isa1000_en,
                    pending, canceling, effect, reg, torn, rc, batch,
                    quiesced, sActive, running, duty0, held >>

\* pwm_config(); on failure the function returns the backend's code
isa1000_vib_set_config(t) ==
    /\ pc[t] = "set78"
    /\ \E r \in {0} \cup Errs :
          /\ Logged(t, "pwm_config", r)
          /\ IF r < 0
                THEN /\ rc' = [rc EXCEPT ![t] = r]
                     /\ Goto(t, "setret")
                     /\ UNCHANGED pwm
                ELSE /\ pwm' = [pwm EXCEPT !.duty_ns = pwm_high_ns(pwm_duty_percent),
                                           !.period_ns = pwm_period_ns]
                     /\ Goto(t, "set84")
                     /\ UNCHANGED rc
    /\ UNCHANGED << speed, active, pwm_duty_percent, gpio_isa1000_en,
                    pending, canceling, effect, reg, torn, batch, quiesced,
                    sActive, running, duty0, held >>

\* pwm_enable() whose failure is logged but not returned
isa1000_vib_set_enable_ignored(t) ==
    /\ pc[t] = "set84"
    /\ \E r \in {0} \cup Errs :
          /\ Logged(t, "pwm_enable", r)
          /\ pwm' = IF r < 0 THEN pwm ELSE [pwm EXCEPT !.enabled = TRUE]
          /\ Goto(t, "set90")
    /\ UNCHANGED << speed, active, pwm_duty_percent, gpio_isa1000_en,
                    pending, canceling, effect, reg, torn, rc, batch,
                    quiesced, sActive, running, duty0, held >>

\* pwm_enable(); on failure the function returns the backend's code
isa1000_vib_set_enable(t) ==
    /\ pc[t] = "set84"
    /\ \E r \in {0} \cup Errs :
          /\ Logged(t, "pwm_enable", r)
          /\ IF r < 0
                THEN /\ rc' = [rc EXCEPT ![t] = r]
                     /\ Goto(t, "setret")
                     /\ UNCHANGED pwm
                ELSE /\ pwm' = [pwm EXCEPT !.enabled = TRUE]
                     /\ Goto(t, "set90")
                     /\ UNCHANGED rc
    /\ UNCHANGED << speed, active, pwm_duty_percent, gpio_isa1000_en,
                    pending, canceling, effect, reg, torn, batch, quiesced,
                    sActive, running, duty0, held >>

\* gpio_set_value_cansleep(en, 1); return 0
isa1000_vib_set_gpio_on(t) ==
    /\ pc[t] = "set90"
    /\ gpio_isa1000_en' = 1
    /\ Logged(t, "gpio", 1)
    /\ rc' = [rc EXCEPT ![t] = 0]
    /\ Goto(t, "setret")
    /\ UNCHANGED << speed, active, pwm_duty_percent, pwm, pending, canceling,
                    effect, reg, torn, batch, quiesced, sActive, running,
                    duty0, held >>

\* the off branch returning after the enable line, the PWM left running
isa1000_vib_set_gpio_off_only(t) ==
    /\ pc[t] = "set92"
    /\ gpio_isa1000_en' = 0
    /\ Logged(t, "gpio", 0)
    /\ rc' = [rc EXCEPT ![t] = 0]
    /\ Goto(t, "setret")
    /\ UNCHANGED << speed, active, pwm_duty_percent, pwm, pending, canceling,
                    effect, reg, torn, batch, quiesced, sActive, running,
                    duty0, held >>

\* the off branch writing the level of the on branch
isa1000_vib_set_gpio_off_high(t) ==
    /\ pc[t] = "set92"
    /\ gpio_isa1000_en' = 1
    /\ Logged(t, "gpio", 1)
    /\ Goto(t, "set93")
    /\ UNCHANGED << speed, active, pwm_duty_percent, pwm, pending, canceling,
                    effect, reg, torn, rc, batch, quiesced, sActive, running,
                    duty0, held >>

\* gpio_set_value_cansleep(en, 0)
isa1000_vib_set_gpio_off(t) ==
    /\ pc[t] = "set92"
    /\ gpio_isa1000_en' = 0
    /\ Logged(t, "gpio", 0)
    /\ Goto(t, "set93")
    /\ UNCHANGED << speed, active, pwm_duty_percent, pwm, pending, canceling,
                    effect, reg, torn, rc, batch, quiesced, sActive, running,
                    duty0, held >>

\* pwm_disable(); return 0
isa1000_vib_set_disable(t) ==
    /\ pc[t] = "set93"
    /\ pwm' = [pwm EXCEPT !.enabled = FALSE]
    /\ Logged(t, "pwm_disable", 0)
    /\ rc' = [rc EXCEPT ![t] = 0]
    /\ Goto(t, "setret")
    /\ UNCHANGED << speed, active, pwm_duty_percent, gpio_isa1000_en,
                    pending, canceling, effect, reg, torn, batch, quiesced,
                    sActive, running, duty0, held >>

\* entry of isa1000_vib_set: the branch on its argument
VibSetEntry(on) == IF on THEN "set78" ELSE "set92"

(***************************************************************************)
(* The workqueue, as far as vib->work uses it.                             *)
(***************************************************************************)
\* schedule_work(): queues the work unless its PENDING bit is already taken
schedule_work(p, c) == IF p = 0 /\ ~c THEN 1 ELSE p

\* a worker thread takes the queued unit; PENDING is cleared before the
\* handler runs, and one work item runs on one worker at a time
process_one_work ==
    /\ pc["work"] = "idle"
    /\ pending > 0
    /\ pending' = pending - 1
    /\ Goto("work", "w107")
    /\ running' = running + 1
    /\ UNCHANGED << speed, active, pwm_duty_percent, gpio_isa1000_en, pwm,
                    canceling, effect, reg, torn, rc, log, batch, quiesced,
                    sActive, duty0, held >>

\* the same start with the run observed: the duty the run starts from and
\* the speed it starts with are recorded
process_one_work_observed ==
    /\ pc["work"] = "idle"
    /\ pending > 0
    /\ pending' = pending - 1
    /\ Goto("work", "w107")
    /\ running' = running + 1
    /\ duty0' = pwm_duty_percent
    /\ held' = {speed}
    /\ UNCHANGED << speed, active, pwm_duty_percent, gpio_isa1000_en, pwm,
                    canceling, effect, reg, torn, rc, log, batch, quiesced,
                    sActive >>

(***************************************************************************)
(* isa1000_work_handler.  vib->speed is read at lines 107, 109 and 111     *)
(* with no lock against isa1000_vib_play_effect; a build may reload it or  *)
(* reuse the value of the first read, so each later read is either one.    *)
(***************************************************************************)
SpeedRead == {speed, reg}

\* if (vib->speed)
isa1000_work_handler_107 ==
    /\ pc["work"] = "w107"
    /\ reg' = speed
    /\ torn' = FALSE
    /\ Goto("work", IF speed # 0 THEN "w108" ELSE "w114")
    /\ batch' = 0
    /\ UNCHANGED << speed, active, pwm_duty_percent, gpio_isa1000_en, pwm,
                    pending, canceling, effect, rc, log, quiesced, sActive,
                    running, duty0, held >>

\* vib->active = true
isa1000_work_handler_108 ==
    /\ pc["work"] = "w108"
    /\ active' = TRUE
    /\ Goto("work", "w109")
    /\ UNCHANGED << speed, pwm_duty_percent, gpio_isa1000_en, pwm, pending,
                    canceling, effect, reg, torn, rc, log, batch, quiesced,
                    sActive, running, duty0, held >>

\* if (vib->speed > 100) vib->pwm_duty_percent = 100
isa1000_work_handler_109 ==
    /\ pc["work"] = "w109"
    /\ \E v \in SpeedRead :
          /\ torn' = (torn \/ v # reg)
          /\ IF v > DUTY_MAX
                THEN /\ pwm_duty_percent' = DUTY_MAX
                     /\ Goto("work", "w117")
                ELSE /\ UNCHANGED pwm_duty_percent
                     /\ Goto("work", "w111")
    /\ UNCHANGED << speed, active, gpio_isa1000_en, pwm, pending, canceling,
                    effect, reg, rc, log, batch, quiesced, sActive, running,
                    duty0, held >>

\* else if (vib->speed < 70) vib->pwm_duty_percent = 70
\* (there is no final else: the duty is otherwise left as it was)
isa1000_work_handler_111 ==
    /\ pc["work"] = "w111"
    /\ \E v \in SpeedRead :
          /\ torn' = (torn \/ v # reg)
          /\ IF v < DUTY_MIN
                THEN pwm_duty_percent' = DUTY_MIN
                ELSE UNCHANGED pwm_duty_percent
    /\ Goto("work", "w117")
    /\ UNCHANGED << speed, active, gpio_isa1000_en, pwm, pending, canceling,
                    effect, reg, rc, log, batch, quiesced, sActive, running,
                    duty0, held >>

\* else: vib->active = false
isa1000_work_handler_114 ==
    /\ pc["work"] = "w114"
    /\ active' = FALSE
    /\ Goto("work", "w115")
    /\ UNCHANGED << speed, pwm_duty_percent, gpio_isa1000_en, pwm, pending,
                    canceling, effect, reg, torn, rc, log, batch, quiesced,
                    sActive, running, duty0, held >>

\* the else branch without its store of the idle duty
isa1000_work_handler_115_kept ==
    /\ pc["work"] = "w115"
    /\ Goto("work", "w117")
    /\ UNCHANGED << speed, active, pwm_duty_percent, gpio_isa1000_en, pwm,
                    pending, canceling, effect, reg, torn, rc, log, batch,
                    quiesced, sActive, running, duty0, held >>

\* vib->pwm_duty_percent = 50
isa1000_work_handler_115 ==
    /\ pc["work"] = "w115"
    /\ pwm_duty_percent' = DUTY_IDLE
    /\ Goto("work", "w117")
    /\ UNCHANGED << speed, active, gpio_isa1000_en, pwm, pending, canceling,
                    effect, reg, torn, rc, log, batch, quiesced, sActive,
                    running, duty0, held >>

\* isa1000_vib_set(vib, vib->active)
isa1000_work_handler_117 ==
    /\ pc["work"] = "w117"
    /\ Goto("work", VibSetEntry(active))
    /\ duty0' = 0
    /\ held' = {}
    /\ UNCHANGED << speed, active, pwm_duty_percent, gpio_isa1000_en, pwm,
                    pending, canceling, effect, reg, torn, rc, log, batch,
                    quiesced, sActive, running >>

\* the handler returns; the result of isa1000_vib_set is dropped
isa1000_work_handler_118 ==
    /\ pc["work"] = "setret"
    /\ Goto("work", "idle")
    /\ reg' = 0
    /\ torn' = FALSE
    /\ rc' = [rc EXCEPT !["work"] = 0]
    /\ log' = [log EXCEPT !["work"] = << >>]
    /\ running' = running - 1
    /\ UNCHANGED << speed, active, pwm_duty_percent, gpio_isa1000_en, pwm,
                    pending, canceling, effect, batch, quiesced, sActive,
                    duty0, held >>

(***************************************************************************)
(* isa1000_vib_play_effect, called by ff-memless one call at a time.       *)
(***************************************************************************)
\* the values vib->speed has held during an observed worker run, once v is
\* stored: recorded from the start of the run until it calls isa1000_vib_set
Holding(v) == IF held = {} THEN held ELSE held \cup {v}

\* vib->speed = effect->u.rumble.strong_magnitude >> 8
isa1000_vib_play_effect_181(E) ==
    /\ pc["play"] = "idle"
    /\ batch < MaxBurst
    /\ \E e \in E :
          /\ effect' = e
          /\ speed' = Shr(e[1], 8)
    /\ Goto("play", "p182")
    /\ held' = Holding(speed')
    /\ UNCHANGED << active, pwm_duty_percent, gpio_isa1000_en, pwm, pending,
                    canceling, reg, torn, rc, log, batch, quiesced, sActive,
                    running, duty0 >>

\* the fallback with the strong magnitude's shift
isa1000_vib_play_effect_182_shift8 ==
    /\ pc["play"] = "p182"
    /\ speed' = IF speed = 0 THEN Shr(effect[2], 8) ELSE speed
    /\ Goto("play", "p185")
    /\ held' = Holding(speed')
    /\ UNCHANGED << active, pwm_duty_percent, gpio_isa1000_en, pwm, pending,
                    canceling, effect, reg, torn, rc, log, batch, quiesced,
                    sActive, running, duty0 >>

\* if (!vib->speed) vib->speed = effect->u.rumble.weak_magnitude >> 9
isa1000_vib_play_effect_182 ==
    /\ pc["play"] = "p182"
    /\ speed' = IF speed = 0 THEN Shr(effect[2], 9) ELSE speed
    /\ Goto("play", "p185")
    /\ held' = Holding(speed')
    /\ UNCHANGED << active, pwm_duty_percent, gpio_isa1000_en, pwm, pending,
                    canceling, effect, reg, torn, rc, log, batch, quiesced,
                    sActive, running, duty0 >>

\* schedule_work() with the desired state stored by the caller itself
isa1000_vib_play_effect_185_eager ==
    /\ pc["play"] = "p185"
    /\ pending' = schedule_work(pending, canceling)
    /\ active' = (speed # 0)
    /\ batch' = IF canceling THEN batch ELSE batch + 1
    /\ quiesced' = "no"
    /\ Goto("play", "p187")
    /\ UNCHANGED << speed, pwm_duty_percent, gpio_isa1000_en, pwm, canceling,
                    effect, reg, torn, rc, log, sActive, running, duty0,
                    held >>

\* the handler entered from the caller's context instead of being queued
isa1000_vib_play_effect_185_direct ==
    /\ pc["play"] = "p185"
    /\ running' = running + 1
    /\ pc' = [pc EXCEPT !["play"] = "p187", !["work"] = "w107"]
    /\ batch' = IF canceling THEN batch ELSE batch + 1
    /\ quiesced' = "no"
    /\ UNCHANGED << speed, active, pwm_duty_percent, gpio_isa1000_en, pwm,
                    pending, canceling, effect, reg, torn, rc, log, sActive,
                    duty0, held >>

\* work scheduled only while no worker run is under way
isa1000_vib_play_effect_185_idleonly ==
    /\ pc["play"] = "p185"
    /\ pending' = IF pc["work"] = "idle"
                  THEN schedule_work(pending, canceling) ELSE pending
    /\ batch' = IF canceling THEN batch ELSE batch + 1
    /\ quiesced' = "no"
    /\ Goto("play", "p187")
    /\ UNCHANGED << speed, active, pwm_duty_percent, gpio_isa1000_en, pwm,
                    canceling, effect, reg, torn, rc, log, sActive, running,
                    duty0, held >>

\* work scheduled only for a non-zero speed
isa1000_vib_play_effect_185_nonzero ==
    /\ pc["play"] = "p185"
    /\ pending' = IF speed # 0 THEN schedule_work(pending, canceling) ELSE pending
    /\ batch' = IF canceling THEN batch ELSE batch + 1
    /\ quiesced' = "no"
    /\ Goto("play", "p187")
    /\ UNCHANGED << speed, active, pwm_duty_percent, gpio_isa1000_en, pwm,
                    canceling, effect, reg, torn, rc, log, sActive, running,
                    duty0, held >>

\* a unit queued on every call, whether or not one is already queued
isa1000_vib_play_effect_185_requeue ==
    /\ pc["play"] = "p185"
    /\ pending' = IF canceling THEN pending ELSE pending + 1
    /\ batch' = IF canceling THEN batch ELSE batch + 1
    /\ quiesced' = "no"
    /\ Goto("play", "p187")
    /\ UNCHANGED << speed, active, pwm_duty_percent, gpio_isa1000_en, pwm,
                    canceling, effect, reg, torn, rc, log, sActive, running,
                    duty0, held >>

\* schedule_work(&vib->work)
isa1000_vib_play_effect_185 ==
    /\ pc["play"] = "p185"
    /\ pending' = schedule_work(pending, canceling)
    /\ batch' = IF canceling THEN batch ELSE batch + 1
    /\ quiesced' = "no"
    /\ Goto("play", "p187")
    /\ UNCHANGED << speed, active, pwm_duty_percent, gpio_isa1000_en, pwm,
                    canceling, effect, reg, torn, rc, log, sActive, running,
                    duty0, held >>

\* return 0
isa1000_vib_play_effect_187 ==
    /\ pc["play"] = "p187"
    /\ rc' = [rc EXCEPT !["play"] = 0]
    /\ Goto("play", "idle")
    /\ UNCHANGED << speed, active, pwm_duty_percent, gpio_isa1000_en, pwm,
                    pending, canceling, effect, reg, torn, log, batch,
                    quiesced, sActive, running, duty0, held >>

(***************************************************************************)
(* isa1000_vib_close.  cancel_work_sync first takes the work's PENDING bit *)
(* (unqueueing a queued unit; schedule_work is a no-op while it is held),  *)
(* then waits for a running handler, then releases the bit.                *)
(***************************************************************************)
\* close that goes straight to the test of vib->active
isa1000_vib_close_160_nocancel ==
    /\ pc["close"] = "idle"
    /\ batch' = 0
    /\ quiesced' = "closing"
    /\ Goto("close", "c163")
    /\ UNCHANGED << speed, active, pwm_duty_percent, gpio_isa1000_en, pwm,
                    pending, canceling, effect, reg, torn, rc, log, sActive,
                    running, duty0, held >>

\* cancel_work_sync(&vib->work): grab the pending unit
isa1000_vib_close_160 ==
    /\ pc["close"] = "idle"
    /\ pending' = 0
    /\ canceling' = TRUE
    /\ batch' = 0
    /\ quiesced' = "closing"
    /\ Goto("close", "c160")
    /\ UNCHANGED << speed, active, pwm_duty_percent, gpio_isa1000_en, pwm,
                    effect, reg, torn, rc, log, sActive, running, duty0,
                    held >>

\* cancel_work_sync(&vib->work): wait for the running handler to return
cancel_work_sync_wait ==
    /\ pc["close"] = "c160"
    /\ pc["work"] = "idle"
    /\ canceling' = FALSE
    /\ Goto("close", "c163")
    /\ UNCHANGED << speed, active, pwm_duty_percent, gpio_isa1000_en, pwm,
                    pending, effect, reg, torn, rc, log, batch, quiesced,
                    sActive, running, duty0, held >>

\* if (vib->active) isa1000_vib_set(vib, false)
isa1000_vib_close_163 ==
    /\ pc["close"] = "c163"
    /\ Goto("close", IF active THEN VibSetEntry(FALSE) ELSE "c165")
    /\ UNCHANGED << speed, active, pwm_duty_percent, gpio_isa1000_en, pwm,
                    pending, canceling, effect, reg, torn, rc, log, batch,
                    quiesced, sActive, running, duty0, held >>

\* the function returns; vib->active is not written
isa1000_vib_close_165 ==
    /\ pc["close"] \in {"setret", "c165"}
    /\ Goto("close", "idle")
    /\ quiesced' = IF quiesced = "closing" THEN "yes" ELSE quiesced
    /\ rc' = [rc EXCEPT !["close"] = 0]
    /\ log' = [log EXCEPT !["close"] = << >>]
    /\ UNCHANGED << speed, active, pwm_duty_percent, gpio_isa1000_en, pwm,
                    pending, canceling, effect, reg, torn, batch, sActive,
                    running, duty0, held >>

(***************************************************************************)
(* isa1000_vib_suspend: no cancel, no test and no write of vib->active.    *)
(***************************************************************************)
\* isa1000_vib_set(vib, false)
isa1000_vib_suspend_303 ==
    /\ pc["suspend"] = "idle"
    /\ sActive' = active
    /\ Goto("suspend", VibSetEntry(FALSE))
    /\ UNCHANGED << speed, active, pwm_duty_percent, gpio_isa1000_en, pwm,
                    pending, canceling, effect, reg, torn, rc, log, batch,
                    quiesced, running, duty0, held >>

\* return 0
isa1000_vib_suspend_305 ==
    /\ pc["suspend"] = "setret"
    /\ Goto("suspend", "idle")
    /\ sActive' = FALSE
    /\ rc' = [rc EXCEPT !["suspend"] = 0]
    /\ log' = [log EXCEPT !["suspend"] = << >>]
    /\ UNCHANGED << speed, active, pwm_duty_percent, gpio_isa1000_en, pwm,
                    pending, canceling, effect, reg, torn, batch, quiesced,
                    running, duty0, held >>

isa1000_vib_set(T) ==
    \E t \in T :
        \/ isa1000_vib_set_config(t)
        \/ isa1000_vib_set_enable(t)
        \/ isa1000_vib_set_gpio_on(t)
        \/ isa1000_vib_set_gpio_off(t)
        \/ isa1000_vib_set_disable(t)

isa1000_work_handler ==
    \/ isa1000_work_handler_107
    \/ isa1000_work_handler_108
    \/ isa1000_work_handler_109
    \/ isa1000_work_handler_111
    \/ isa1000_work_handler_114
    \/ isa1000_work_handler_115
    \/ isa1000_work_handler_117
    \/ isa1000_work_handler_118

isa1000_vib_play_effect(E) ==
    \/ isa1000_vib_play_effect_181(E)
    \/ isa1000_vib_play_effect_182
    \/ isa1000_vib_play_effect_185
    \/ isa1000_vib_play_effect_187

isa1000_vib_close ==
    \/ isa1000_vib_close_160
    \/ cancel_work_sync_wait
    \/ isa1000_vib_close_163
    \/ isa1000_vib_close_165

isa1000_vib_suspend ==
    \/ isa1000_vib_suspend_303
    \/ isa1000_vib_suspend_305

\* all four contexts
Next ==
    \/ isa1000_vib_play_effect(Effects)
    \/ process_one_work
    \/ isa1000_work_handler
    \/ isa1000_vib_set({"work", "close", "suspend"})
    \/ isa1000_vib_close
    \/ isa1000_vib_suspend

Spec == Init /\ [][Next]_vars

\* the force-feedback path alone (caller and worker), over the wide inputs
NextFF ==
    \/ isa1000_vib_play_effect(WideEffects)
    \/ process_one_work
    \/ isa1000_work_handler
    \/ isa1000_vib_set({"work"})

SpecFF == Init /\ [][NextFF]_vars

\* the same steps with the worker scheduled fairly: a queued unit is
\* eventually started and a started handler runs to its return; nothing is
\* assumed of the caller
SpecFair ==
    /\ Init
    /\ [][NextFF]_vars
    /\ WF_vars(process_one_work)
    /\ WF_vars(isa1000_work_handler)
    /\ WF_vars(isa1000_vib_set({"work"}))

\* caller and worker with every worker run observed
NextObserved ==
    \/ isa1000_vib_play_effect(Effects)
    \/ process_one_work_observed
    \/ isa1000_work_handler
    \/ isa1000_vib_set({"work"})

SpecObserved == Init /\ [][NextObserved]_vars

\* caller and worker, with suspend called only while no work is queued or
\* running and no play call is under way (suspend never overlaps a worker)
NextSus ==
    \/ /\ pc["suspend"] = "idle"
       /\ \/ isa1000_vib_play_effect(Effects)
          \/ process_one_work
          \/ isa1000_work_handler
          \/ isa1000_vib_set({"work"})
    \/ /\ pc["work"] = "idle"
       /\ pending = 0
       /\ pc["play"] = "idle"
       /\ \/ isa1000_vib_suspend
          \/ isa1000_vib_set({"suspend"})

SpecSus == Init /\ [][NextSus]_vars


(***************************************************************************)
(* Properties.                                                             *)
(***************************************************************************)
\* lines 107-116 on one value s of vib->speed, from the duty d0: the pair
\* <<vib->pwm_duty_percent, vib->active>> the handler leaves
WorkResult(d0, s) ==
    IF s # 0
        THEN << IF s > DUTY_MAX THEN DUTY_MAX
                ELSE IF s < DUTY_MIN THEN DUTY_MIN
                ELSE d0,
                TRUE >>
        ELSE << DUTY_IDLE, FALSE >>

Running == IF pc["work"] = "idle" THEN 0 ELSE 1

\* the worker has returned from isa1000_vib_set having seen one speed value
Processed(s) == pc["work"] = "setret" /\ ~torn /\ reg = s

\* the speed a play call is meant to store for the pair e
ExpectedSpeed(e) ==
    IF e[1] \div 256 # 0 THEN e[1] \div 256 ELSE e[2] \div 512

\* C1: for every speed s in 70..100 and every prior state, a worker run
\* that processes s ends with pwm_duty_percent = s and active = TRUE, and
\* the PWM high time it programs is period * s / 100.
C1_DutyFollowsSpeed ==
    \A s \in 70..100 :
        Processed(s) =>
            /\ active
            /\ pwm_duty_percent = s
            /\ (rc["work"] = 0 => pwm.duty_ns = (pwm_period_ns * s) \div 100)

\* C2: a worker run that processes a speed outside 70..100 ends with:
\* speed 0: active FALSE, duty 50, enable line low, PWM disabled;
\* speed 1..69: duty 70 and active; speed above 100: duty 100 and active.
C2_OutOfRangeSpeeds ==
    \A s \in 0..255 :
        Processed(s) =>
            /\ (s = 0 => /\ ~active
                         /\ pwm_duty_percent = 50
                         /\ gpio_isa1000_en = 0
                         /\ ~pwm.enabled)
            /\ (s \in 1..69 => active /\ pwm_duty_percent = 70)
            /\ (s > 100 => active /\ pwm_duty_percent = 100)

\* a zero speed processed after the actuator had been driven
C2_Witness ==
    /\ Processed(0)
    /\ pwm.duty_ns > 0
    /\ ~active

\* C3: once a play call has stored the speed, vib->speed is strong >> 8 when
\* that is non-zero and weak >> 9 otherwise, lies in 0..255, is 0 exactly
\* when strong < 256 and weak < 512, whatever speed was stored before.
C3_StoredSpeed ==
    pc["play"] \in {"p185", "p187", "idle"} =>
        /\ speed = ExpectedSpeed(effect)
        /\ speed \in 0..255
        /\ (speed = 0 <=> (effect[1] < 256 /\ effect[2] < 512))

\* a second call, made before any worker consumed the first one's speed,
\* has stored its own speed through the weak-magnitude fallback
C3_Witness ==
    /\ pc["play"] = "p187"
    /\ batch = 2
    /\ pending = 1
    /\ effect[1] < 256
    /\ speed # 0

\* C4: play calls completed while no worker has started leave exactly one
\* queued unit, and the worker that takes it reads the speed of the last call.
C4_OneRunLastSpeed ==
    /\ [](batch >= 1 /\ pc["work"] # "w107" => pending = 1)
    /\ [][(/\ pc["work"] = "w107"
           /\ pc["work"]' # "w107"
           /\ pc["play"] \in {"idle", "p187"})
              => reg' = ExpectedSpeed(effect)]_vars

\* two calls completed before the one worker run that resulted from them
\* has read the speed, and nothing more is queued
C4_Witness ==
    /\ pc["work"] = "w107"
    /\ batch = 2
    /\ pending = 0
    /\ pc["play"] = "idle"
    /\ speed # 0

C7_CloseClearsActive == quiesced = "yes" => ~active

\* C8: a suspend called while active is TRUE has, on return, the enable
\* line low and the PWM disabled, whatever the worker does meanwhile.
C8_SuspendForcesOff ==
    (pc["suspend"] = "setret" /\ sActive)
        => (gpio_isa1000_en = 0 /\ ~pwm.enabled)

Quiescent ==
    /\ pc["work"] = "idle"
    /\ pc["close"] = "idle"
    /\ pc["suspend"] = "idle"

\* C9: in every quiescent state active = TRUE means the line is high and the
\* PWM is enabled with the current duty, and active = FALSE means the line is
\* low and the PWM disabled.
C9_ActiveMatchesHardware ==
    Quiescent =>
        /\ active => /\ gpio_isa1000_en = 1
                     /\ pwm.enabled
                     /\ pwm.duty_ns = pwm_high_ns(pwm_duty_percent)
        /\ ~active => (gpio_isa1000_en = 0 /\ ~pwm.enabled)

HasOp(l, op) == \E i \in 1..Len(l) : l[i].op = op

\* C10: an isa1000_vib_set(on = true) call whose pwm_config or pwm_enable
\* fails returns that error without writing the enable line (and without
\* calling pwm_enable after a failed pwm_config); it returns 0 only after
\* both succeeded and the line was set.
C10_ActivateErrors ==
    \A t \in Threads :
        (pc[t] = "setret" /\ HasOp(log[t], "pwm_config")) =>
            LET l == log[t] IN
            /\ rc[t] < 0 =>
                  /\ ~HasOp(l, "gpio")
                  /\ l[Len(l)].val = rc[t]
                  /\ (l[1].val < 0 => Len(l) = 1)
            /\ rc[t] = 0 =>
                  l = << HwOp("pwm_config", 0), HwOp("pwm_enable", 0),
                         HwOp("gpio", 1) >>

\* pwm_config succeeded, pwm_enable failed, the line was left low
C10_Witness ==
    /\ pc["work"] = "setret"
    /\ rc["work"] < 0
    /\ Len(log["work"]) = 2
    /\ gpio_isa1000_en = 0

\* a step of the off branch of isa1000_vib_set, by whichever context
OffStep ==
    \E t \in Threads : pc[t] \in {"set92", "set93"} /\ pc[t]' # pc[t]

Inactive == gpio_isa1000_en = 0 /\ ~pwm.enabled /\ ~active

\* C11: isa1000_vib_set(false), called directly or by suspend, on an actuator
\* that is already inactive returns 0 and changes neither the enable line,
\* the PWM, active, the duty nor the speed; so a second call changes nothing
\* either.
C11_OffIsIdempotent ==
    /\ [][(Inactive /\ (OffStep \/ pc["suspend"]' # pc["suspend"]))
             => UNCHANGED << gpio_isa1000_en, pwm, active, pwm_duty_percent,
                             speed >>]_vars
    /\ [](pc["suspend"] = "setret" => rc["suspend"] = 0)

\* suspend has run to its return on an actuator that had been driven and
\* switched off before, and is still inactive
C11_Witness ==
    /\ pc["suspend"] = "setret"
    /\ ~sActive
    /\ Inactive
    /\ Len(log["suspend"]) = 2
    /\ pwm.duty_ns > 0
    /\ pc["work"] = "idle"
    /\ pending = 0

\* a step of isa1000_vib_play_effect
PlayStep == pc["play"]' # pc["play"]

\* C12: isa1000_vib_play_effect returns 0 whatever its input and the state,
\* and its steps change only vib->speed and the queued state of the work:
\* active, the duty, the enable line and the PWM are left as they were.
C12_PlayFrame ==
    /\ [][PlayStep => UNCHANGED << active, pwm_duty_percent, gpio_isa1000_en,
                                   pwm, canceling, log >>]_vars
    /\ [](rc["play"] = 0)

\* a call has returned while the worker was driving the actuator
C12_Witness ==
    /\ pc["play"] = "p187"
    /\ pending = 1
    /\ pc["work"] = "set90"
    /\ active
    /\ speed = 0

\* C13: suspend forces the actuator state to inactive: when it has returned
\* and no worker is running, active is FALSE (and the line is low and the
\* PWM disabled), whatever active was before.
C13_SuspendClearsActive ==
    pc["suspend"] = "setret"
        => (~active /\ gpio_isa1000_en = 0 /\ ~pwm.enabled)

\* C14: a worker run for a non-zero speed whose pwm_config or pwm_enable
\* fails ends with each backend call made at most once (no retry), with
\* active left TRUE and without a write to the enable line; nothing but the
\* handler's return follows.
C14_FailedRunStaysActive ==
    (pc["work"] = "setret" /\ rc["work"] < 0) =>
        LET l == log["work"] IN
        /\ active
        /\ ~HasOp(l, "gpio")
        /\ \/ (Len(l) = 1 /\ l[1] = HwOp("pwm_config", rc["work"]))
           \/ (Len(l) = 2 /\ l[1] = HwOp("pwm_config", 0)
                          /\ l[2] = HwOp("pwm_enable", rc["work"]))

\* pwm_config failed on the first drive request: active is set, the line low
C14_Witness ==
    /\ pc["work"] = "setret"
    /\ rc["work"] < 0
    /\ Len(log["work"]) = 1
    /\ active
    /\ gpio_isa1000_en = 0
    /\ reg # 0

OnOrder == << "pwm_config", "pwm_enable", "gpio" >>

OffOrder == << "gpio", "pwm_disable" >>

\* the operations of l follow the order ord from its start
FollowsOrder(l, ord) ==
    /\ Len(l) <= Len(ord)
    /\ \A i \in 1..Len(l) : l[i].op = ord[i]

\* C15: within one isa1000_vib_set call, on: pwm_config comes before
\* pwm_enable and the enable line is set only after both returned 0; off:
\* the enable line is cleared before pwm_disable, and pwm_disable is always
\* called.
C15_CallOrder ==
    \A t \in Threads :
        LET l == log[t] IN
        /\ FollowsOrder(l, OnOrder) \/ FollowsOrder(l, OffOrder)
        /\ (Len(l) = 3 => (l[1].val = 0 /\ l[2].val = 0 /\ l[3].val = 1))
        /\ (Len(l) >= 2 /\ l[2].op = "pwm_enable" => l[1].val = 0)
        /\ (pc[t] = "setret" /\ Len(l) >= 1 /\ l[1].op = "gpio")
              => (l = << HwOp("gpio", 0), HwOp("pwm_disable", 0) >>)

\* an on call and an off call have both run to their return
C15_Witness ==
    /\ pc["suspend"] = "setret"
    /\ Len(log["suspend"]) = 2
    /\ pc["work"] = "setret"
    /\ Len(log["work"]) = 3

\* no call is under way, no unit is queued and no worker runs
Settled == pc["play"] = "idle" /\ pc["work"] = "idle" /\ pending = 0

HardwareOn == gpio_isa1000_en = 1 /\ pwm.enabled

HardwareOff == gpio_isa1000_en = 0 /\ ~pwm.enabled

C18_DutyInDriveRange ==
    (pc["work"] = "set84" /\ rc["work"] = 0)
        => /\ pwm.duty_ns >= pwm_high_ns(DUTY_MIN)
           /\ pwm.duty_ns <= pwm_high_ns(DUTY_MAX)

\* C19: the pair <<pwm_duty_percent, active>> a worker run hands to
\* isa1000_vib_set is the result, from the duty the run started with, for one
\* single value vib->speed held during the run.
C19_SingleSnapshot ==
    pc["work"] = "w117"
        => \E s \in held :
               << pwm_duty_percent, active >> = WorkResult(duty0, s)

\* C20: in every reachable state the enable line is high only while the PWM
\* is enabled.
C20_LineOnlyWithPwm == gpio_isa1000_en = 1 => pwm.enabled
====
